---- MODULE Spec2Model ----
(***************************************************************************)
(* Model of cloudpickle_generators/__init__.py: the cloudpickle extension *)
(* that pickles generator objects.                                         *)
(*                                                                         *)
(* Python objects are strings: "None", "v1", ... are ordinary values,      *)
(* "G" is the generator being pickled, "S1", "S2", ... are the generators  *)
(* allocated while a stream is replayed.  unset_value is the marker object *)
(* of _core; NULL is the C null pointer of an unassigned frame slot or an  *)
(* empty cell.  A dict is a set of <<key, value>> pairs, one per key.      *)
(*                                                                         *)
(* Spec          one generator: run by its owner, pickled by               *)
(*               _save_generator, replayed by the unpickler, resumed       *)
(* SpecFill      _fill_generator on a skeleton and an arbitrary mapping    *)
(* SpecSkeleton  _create_skeleton_generator on an arbitrary carrier        *)
(* SpecRegistry  register() and unregister() among other parties           *)
(***************************************************************************)
EXTENDS Integers, Sequences, FiniteSets, TLC

VARIABLES dispatch, history, raised

VARIABLES fill_in, fill_out

VARIABLES skel_in, skel_out

VARIABLES generator, selfglobal

VARIABLES pstatus, pstack, pmemo, stream, calls

VARIABLES ustatus, upos, ustack, umemo, heap, result, outcomes

regvars == <<dispatch, history, raised>>

fillvars == <<fill_in, fill_out>>

skelvars == <<skel_in, skel_out>>

ownervars == <<generator, selfglobal>>

picklevars == <<pstatus, pstack, pmemo, stream, calls>>

loadvars == <<ustatus, upos, ustack, umemo, heap, result, outcomes>>

lifevars == <<ownervars, picklevars, loadvars>>

vars == <<regvars, fillvars, skelvars, lifevars>>

nonregvars == <<fillvars, skelvars, lifevars>>

nonfillvars == <<regvars, skelvars, lifevars>>

nonskelvars == <<regvars, fillvars, lifevars>>

nonlifevars == <<regvars, fillvars, skelvars>>

-----------------------------------------------------------------------------
(* Bounds of the model *)

MaxCalls == 4

MaxArgs == 1

MaxKwonly == 1

MaxLocals == 1

MaxCells == 1

MaxFree == 1

MaxLasti == 1

RecursionLimit == 2

MaxResumes == 2

-----------------------------------------------------------------------------
(* Python dict primitives *)

DictHas(d, k) == \E e \in d : e[1] = k

DictGet(d, k, default) ==
    IF DictHas(d, k) THEN (CHOOSE e \in d : e[1] = k)[2] ELSE default

DictSet(d, k, v) == {e \in d : e[1] # k} \cup {<<k, v>>}

DictDel(d, k) == {e \in d : e[1] # k}

DictKeys(d) == {e[1] : e \in d}

-----------------------------------------------------------------------------
(* Python objects, code objects, frames *)

\* The values a variable of the generator holds; the marker unset_value is
\* private to the package and is not one of them.
Values == {"None", "v1"}

unset_value == "unset_value"

NULL == "NULL"

\* An entry of a frame's slot array or of the list given to restore_frame:
\* a bare object, or a cell object with its contents.
Bare(v) == [cell |-> FALSE, v |-> v]

CellObj(v) == [cell |-> TRUE, v |-> v]

Names(kind, n) == [i \in 1..n |-> <<kind, i>>]

SeqRange(s) == {s[i] : i \in 1..Len(s)}

\* seq[start:stop] of Python, for 0 <= start and 0 <= stop.
PySlice(s, start, stop) ==
    LET hi == IF stop < Len(s) THEN stop ELSE Len(s)
    IN  IF start >= hi THEN <<>> ELSE [i \in 1..(hi - start) |-> s[start + i]]

\* The code object of a generator function with a positional parameters,
\* k keyword-only parameters, optional *args and **kwargs, nl further locals,
\* nc cell variables and nf free variables.
Code(a, k, va, vk, nl, nc, nf) ==
    [co_argcount |-> a,
     co_kwonlyargcount |-> k,
     varargs |-> va,
     varkw |-> vk,
     co_varnames |-> Names("p", a) \o Names("k", k)
                     \o (IF va THEN Names("args", 1) ELSE <<>>)
                     \o (IF vk THEN Names("kwargs", 1) ELSE <<>>)
                     \o Names("x", nl),
     co_cellvars |-> Names("c", nc),
     co_freevars |-> Names("y", nf)]

CellNames(code) == code.co_cellvars \o code.co_freevars

SlotNames(code) == code.co_varnames \o CellNames(code)

NoFrame == [live |-> FALSE, f_lasti |-> -1, fast |-> <<>>, data |-> "None"]

NoCode == Code(0, 0, FALSE, FALSE, 0, 0, 0)

NoGen == [name |-> "None", qualname |-> "None", code |-> NoCode, frame |-> NoFrame]

Return(gen) == [exc |-> "none", gen |-> gen]

Raise(e) == [exc |-> e, gen |-> NoGen]

NOT_STARTED == -1

\* The payload of a frame that has not started.
FreshData == "fd0"

\* The payload of a frame paused at a yield: its value and block stacks.
PausedData == "fd1"

\* frame.f_locals: the names whose slot is assigned or whose cell is filled.
f_locals_of(code, frame) ==
    {<<SlotNames(code)[i], frame.fast[i].v>> :
        i \in {j \in 1..Len(frame.fast) : frame.fast[j].v # NULL}}

\* private_frame_data(frame) of _core: the opaque payload of the frame.
private_frame_data(frame) == frame.data

\* restore_frame(frame, lasti, locals_, *frame_data) of _core: writes the
\* instruction pointer, the slots (the marker unset_value leaves a slot
\* unassigned) and the payload; a list of the wrong length is an error.
restore_frame(frame, lasti, locals_, frame_data) ==
    IF Len(locals_) # Len(frame.fast)
      THEN [exc |-> "ValueError", frame |-> frame]
      ELSE [exc |-> "none",
            frame |-> [live |-> TRUE,
                       f_lasti |-> lasti,
                       fast |-> [i \in 1..Len(locals_) |->
                                   IF locals_[i] = Bare(unset_value)
                                     THEN Bare(NULL) ELSE locals_[i]],
                       data |-> frame_data]]

-----------------------------------------------------------------------------
(* _empty_cell, _make_cell, _fill_generator *)

_empty_cell == CellObj(NULL)

\* A variant that also leaves the cell empty when the captured value is None.
_make_cell_falsy(f_locals, var) ==
    LET value == DictGet(f_locals, var, unset_value)
    IN  IF value \in {unset_value, "None"} THEN CellObj(NULL) ELSE CellObj(value)

_make_cell(f_locals, var) ==
    LET value == DictGet(f_locals, var, unset_value)
    IN  IF value = unset_value THEN CellObj(NULL) ELSE CellObj(value)

\* The list locals_ built by _fill_generator.
fill_locals(code, f_locals) ==
    LET cells == code.co_cellvars \o code.co_freevars
    IN  [i \in 1..Len(code.co_varnames) |->
            Bare(DictGet(f_locals, code.co_varnames[i], unset_value))]
        \o [i \in 1..Len(cells) |-> _make_cell(f_locals, cells[i])]

_fill_generator(gen, lasti, f_locals, frame_data) ==
    LET code == gen.code
        locals_ == fill_locals(code, f_locals)
        r == restore_frame(gen.frame, lasti, locals_, frame_data)
    IN  IF r.exc # "none"
          THEN [exc |-> r.exc, gen |-> gen]
          ELSE Return([gen EXCEPT !.frame = r.frame])

-----------------------------------------------------------------------------
(* Calling a generator function; _create_skeleton_generator *)

\* The definition-carrier built by _save_generator: code, name and
\* qualified name of the generator, one empty cell per free variable.
GenFunc(code, name, qualname) ==
    [code |-> code, name |-> name, qualname |-> qualname,
     closure |-> [i \in 1..Len(code.co_freevars) |-> _empty_cell]]

\* gen_func(*posargs, **kwargs) with npos positional arguments None and one
\* keyword argument None per name of kwnames; gen_func has no defaults.
\* The call binds the arguments and creates the generator; it runs no code.
PyCall(gen_func, npos, kwnames) ==
    LET code == gen_func.code
        a == code.co_argcount
        k == code.co_kwonlyargcount
        pos == PySlice(code.co_varnames, 0, a)
        kwonly == PySlice(code.co_varnames, a, a + k)
        bound == SeqRange(PySlice(pos, 0, npos))
        ok == /\ (npos <= a \/ code.varargs)
              /\ \A n \in kwnames : n \notin bound
              /\ \A n \in kwnames :
                    n \in SeqRange(pos) \cup SeqRange(kwonly) \/ code.varkw
              /\ \A n \in SeqRange(pos) : n \in bound \cup kwnames
              /\ \A n \in SeqRange(kwonly) : n \in kwnames
        slot(n) == IF n[1] \in {"p", "k"} THEN Bare("None")
                   ELSE IF n[1] = "args" THEN Bare("()")
                   ELSE IF n[1] = "kwargs" THEN Bare("{}")
                   ELSE Bare(NULL)
        fast == [i \in 1..Len(code.co_varnames) |-> slot(code.co_varnames[i])]
                \o [i \in 1..Len(code.co_cellvars) |-> CellObj(NULL)]
                \o gen_func.closure
    IN  IF ~ok THEN Raise("TypeError")
        ELSE Return([name |-> gen_func.name,
                     \* Python 3.6 loses the qualified name of a function
                     \* that takes both *args and **kwargs
                     qualname |-> IF code.varargs /\ code.varkw
                                    THEN gen_func.name ELSE gen_func.qualname,
                     code |-> code,
                     frame |-> [live |-> TRUE, f_lasti |-> NOT_STARTED,
                                fast |-> fast, data |-> FreshData]])

\* The arguments _create_skeleton_generator calls gen_func with: how many
\* positional None, and the names of the keyword arguments None.
skeleton_args(gen_func) ==
    LET code == gen_func.code
        kwonly_names == PySlice(code.co_varnames, code.co_argcount,
                                code.co_kwonlyargcount)
    IN  [npos |-> code.co_argcount, kwnames |-> SeqRange(kwonly_names)]

_create_skeleton_generator(gen_func) ==
    LET args == skeleton_args(gen_func)
        r == PyCall(gen_func, args.npos, args.kwnames)
    IN  IF r.exc # "none" THEN r
        ELSE Return([r.gen EXCEPT !.qualname = gen_func.qualname])

-----------------------------------------------------------------------------
(* _fill_generator applied to a skeleton and an arbitrary locals mapping *)

QualNames == {"gen", "outer.<locals>.gen"}

FillCodes ==
    {Code(0, 0, FALSE, FALSE, nl, nc, nf) :
        nl \in 0..MaxLocals, nc \in 0..MaxCells, nf \in 0..MaxFree}

\* A name no code object of the model declares.
ForeignName == <<"z", 1>>

\* Every dict with keys among names and values among Values.
Mappings(names) ==
    UNION {{ {<<n, f[n]>> : n \in keys} : f \in [keys -> Values]} :
            keys \in SUBSET names}

Pending == [done |-> FALSE, exc |-> "none", gen |-> NoGen, locals_ |-> <<>>]

InitFill ==
    /\ \E code \in FillCodes, lasti \in {NOT_STARTED, MaxLasti} :
       \E f_locals \in Mappings(SeqRange(SlotNames(code)) \cup {ForeignName}) :
          fill_in = [gen |-> _create_skeleton_generator(GenFunc(code, "gen", "gen")).gen,
                     lasti |-> lasti,
                     f_locals |-> f_locals,
                     frame_data |-> IF lasti = NOT_STARTED THEN FreshData ELSE PausedData]
    /\ fill_out = Pending

\* The unpickler's REDUCE calls _fill_generator(gen, lasti, f_locals, frame_data).
FillGenerator ==
    /\ ~fill_out.done
    /\ LET r == _fill_generator(fill_in.gen, fill_in.lasti, fill_in.f_locals,
                                fill_in.frame_data)
       IN  fill_out' = [done |-> TRUE, exc |-> r.exc, gen |-> r.gen,
                        locals_ |-> fill_locals(fill_in.gen.code, fill_in.f_locals)]
    /\ UNCHANGED fill_in
    /\ UNCHANGED nonfillvars

NextFill == FillGenerator

-----------------------------------------------------------------------------
(* _create_skeleton_generator applied to an arbitrary definition-carrier *)

CarrierCodes ==
    {Code(a, k, va, vk, 0, 0, nf) :
        a \in 0..MaxArgs, k \in 0..MaxKwonly, va \in BOOLEAN, vk \in BOOLEAN,
        nf \in 0..MaxFree}

SkelPending == [done |-> FALSE, exc |-> "none", gen |-> NoGen,
                npos |-> 0, kwnames |-> {}]

InitSkeleton ==
    /\ \E code \in CarrierCodes, qualname \in QualNames :
          skel_in = GenFunc(code, "gen", qualname)
    /\ skel_out = SkelPending

\* The unpickler's REDUCE calls _create_skeleton_generator(gen_func).
CreateSkeleton ==
    /\ ~skel_out.done
    /\ LET r == _create_skeleton_generator(skel_in)
           args == skeleton_args(skel_in)
       IN  skel_out' = [done |-> TRUE, exc |-> r.exc, gen |-> r.gen,
                        npos |-> args.npos, kwnames |-> args.kwnames]
    /\ UNCHANGED skel_in
    /\ UNCHANGED nonskelvars

NextSkeleton == CreateSkeleton

-----------------------------------------------------------------------------
(* Registration: CloudPickler.dispatch, register(), unregister() *)

GeneratorType == "GeneratorType"

FunctionType == "FunctionType"

Types == {GeneratorType, FunctionType}

_save_generator == "_save_generator"

OtherHandlers == {"other_save_generator", "save_function"}

Op(name, type, handler) == [op |-> name, type |-> type, handler |-> handler]

\* CloudPickler.dispatch as cloudpickle ships it: no entry for generators.
InitRegistry ==
    /\ dispatch = {<<FunctionType, "save_function">>}
    /\ history = <<>>
    /\ raised = "none"

\* A variant that keeps an entry already in the table (dict.setdefault).
register_setdefault ==
    /\ Len(history) < MaxCalls
    /\ dispatch' = IF DictHas(dispatch, GeneratorType)
                     THEN dispatch
                     ELSE DictSet(dispatch, GeneratorType, _save_generator)
    /\ raised' = "none"
    /\ history' = Append(history, Op("register", GeneratorType, _save_generator))
    /\ UNCHANGED nonregvars

register ==
    /\ Len(history) < MaxCalls
    /\ dispatch' = DictSet(dispatch, GeneratorType, _save_generator)
    /\ raised' = "none"
    /\ history' = Append(history, Op("register", GeneratorType, _save_generator))
    /\ UNCHANGED nonregvars

\* A variant that deletes the entry without looking at who owns it.
unregister_unchecked ==
    /\ Len(history) < MaxCalls
    /\ dispatch' = DictDel(dispatch, GeneratorType)
    /\ raised' = IF DictHas(dispatch, GeneratorType) THEN "none" ELSE "KeyError"
    /\ history' = Append(history, Op("unregister", GeneratorType, _save_generator))
    /\ UNCHANGED nonregvars

unregister ==
    /\ Len(history) < MaxCalls
    /\ IF DictGet(dispatch, GeneratorType, "None") = _save_generator
         THEN /\ dispatch' = DictDel(dispatch, GeneratorType)
              /\ raised' = IF DictHas(dispatch, GeneratorType) THEN "none" ELSE "KeyError"
         ELSE /\ dispatch' = dispatch
              /\ raised' = "none"
    /\ history' = Append(history, Op("unregister", GeneratorType, _save_generator))
    /\ UNCHANGED nonregvars

\* Another party assigns its own handler in the shared table.
OtherInstall ==
    \E t \in Types, h \in OtherHandlers :
        /\ Len(history) < MaxCalls
        /\ dispatch' = DictSet(dispatch, t, h)
        /\ history' = Append(history, Op("other_install", t, h))
        /\ UNCHANGED raised
    /\ UNCHANGED nonregvars

\* Another party deletes an entry of the shared table.
OtherRemove ==
    \E t \in Types :
        /\ Len(history) < MaxCalls
        /\ DictHas(dispatch, t)
        /\ dispatch' = DictDel(dispatch, t)
        /\ history' = Append(history, Op("other_remove", t, "None"))
        /\ UNCHANGED raised
    /\ UNCHANGED nonregvars

NextRegistry == register \/ unregister \/ OtherInstall \/ OtherRemove

\* The handler the pickler finds for a type: the table's entry, or else the
\* pickler's default treatment (reduce protocol) of the type.
HandlerFor(type) == DictGet(dispatch, type, "default")

EntriesFor(type) == {e \in dispatch : e[1] = type}

-----------------------------------------------------------------------------
(* Resuming a generator; _restore_spent_generator *)

\* The code of single_generator: no parameters, no variables, one yield.
SingleCode == Code(0, 0, FALSE, FALSE, 0, 0, 0)

\* The instruction pointer of single_generator while paused at its yield.
SingleYield == 0

\* next(gen) on a generator running single_generator's body: the first
\* resume runs to the yield, the second runs off the end of the body and
\* releases the frame, every later one finds no frame.
PyNextSingle(gen) ==
    IF ~gen.frame.live
      THEN [gen |-> gen, outcome |-> "StopIteration"]
    ELSE IF gen.frame.f_lasti = NOT_STARTED
      THEN [gen |-> [gen EXCEPT !.frame.f_lasti = SingleYield], outcome |-> "yield"]
    ELSE [gen |-> [gen EXCEPT !.frame = NoFrame], outcome |-> "StopIteration"]

\* A variant that returns the generator without running it.
restore_spent_unrun(name, qualname) ==
    LET single_generator ==
            [code |-> SingleCode, name |-> name, qualname |-> qualname,
             closure |-> <<>>]
    IN  PyCall(single_generator, 0, {}).gen

_restore_spent_generator(name, qualname) ==
    LET single_generator ==
            [code |-> SingleCode, name |-> name, qualname |-> qualname,
             closure |-> <<>>]
        gen == PyCall(single_generator, 0, {}).gen
    IN  PyNextSingle(gen).gen

-----------------------------------------------------------------------------
(* The generator under capture and its owner *)

\* What a slot of the generator's frame holds: nothing, a value, or the
\* generator itself.
SlotVals == {NULL, "G"} \cup Values

LifeCodes ==
    {Code(a, k, FALSE, FALSE, MaxLocals, MaxCells, MaxFree) :
        a \in 0..MaxArgs, k \in 0..MaxKwonly}

\* Assigning (or deleting, with NULL) the variable of slot i.
SetSlot(fast, i, v) == [fast EXCEPT ![i].v = v]

InitOwner ==
    \E code \in LifeCodes, qualname \in QualNames, sg \in BOOLEAN :
      LET func == [code |-> code, name |-> "gen", qualname |-> qualname,
                   closure |-> [i \in 1..Len(code.co_freevars) |-> CellObj("v1")]]
          kwonly == PySlice(code.co_varnames, code.co_argcount,
                            code.co_argcount + code.co_kwonlyargcount)
      IN  /\ generator = PyCall(func, code.co_argcount, SeqRange(kwonly)).gen
          /\ selfglobal = sg

\* The owner resumes the generator; its body assigns one variable and
\* pauses at the next yield.
ResumeYield ==
    /\ pstatus = "idle"
    /\ generator.frame.live
    /\ generator.frame.f_lasti < MaxLasti
    /\ \E i \in 1..Len(generator.frame.fast), v \in SlotVals :
          generator' = [generator EXCEPT !.frame.f_lasti = @ + 1,
                                         !.frame.fast = SetSlot(@, i, v),
                                         !.frame.data = PausedData]
    /\ UNCHANGED <<selfglobal, picklevars, loadvars>>
    /\ UNCHANGED nonlifevars

\* The owner resumes the generator; its body returns or raises, and the
\* frame is released.
ResumeFinish ==
    /\ pstatus = "idle"
    /\ generator.frame.live
    /\ generator' = [generator EXCEPT !.frame = NoFrame]
    /\ UNCHANGED <<selfglobal, picklevars, loadvars>>
    /\ UNCHANGED nonlifevars

-----------------------------------------------------------------------------
(* Pickling: CloudPickler.dump(gen) and _save_generator *)

StreamOp(op, arg) == [op |-> op, arg |-> arg]

Activation(pc) == [pc |-> pc, log |-> <<>>]

Top == pstack[Len(pstack)]

At(pc) == pstatus = "saving" /\ Len(pstack) > 0 /\ Top.pc = pc

\* The running _save_generator goes on to the statement at line pc, having
\* made the call named call and written ops to the stream.
Advance(pc, call, ops) ==
    /\ pstack' = [pstack EXCEPT ![Len(pstack)] =
                     [pc |-> pc, log |-> Append(@.log, call)]]
    /\ stream' = stream \o ops

\* _save_generator returns: to the save() that called it, or to dump().
ReturnFrom(call, ops) ==
    /\ pstack' = SubSeq(pstack, 1, Len(pstack) - 1)
    /\ stream' = stream \o ops
    /\ calls' = Append(Top.log, call)
    /\ pstatus' = IF Len(pstack) = 1 THEN "done" ELSE pstatus

\* save(gen) of an instance that is not memoized: the dispatch table
\* sends it to _save_generator again; Python's recursion limit ends the descent.
Recurse ==
    IF Len(pstack) >= RecursionLimit
      THEN /\ pstatus' = "error"
           /\ pstack' = <<>>
           /\ UNCHANGED <<stream, pmemo, calls>>
      ELSE /\ pstack' = Append(pstack, Activation(121))
           /\ UNCHANGED <<pstatus, stream, pmemo, calls>>

\* The object as written to the stream: a reference to the memoized
\* instance is written as a fetch of its memo entry.
Pickled(v) == IF v = "G" THEN "@G" ELSE v

\* CloudPickler.dump(gen): save(gen) finds the handler in the dispatch table.
Dump ==
    /\ pstatus = "idle"
    /\ HandlerFor(GeneratorType) = _save_generator
    /\ pstatus' = "saving"
    /\ pstack' = <<Activation(121)>>
    /\ UNCHANGED <<stream, pmemo, calls, ownervars, loadvars>>
    /\ UNCHANGED nonlifevars

\* Which branch _save_generator takes for a generator.
SavePath(g) == IF ~g.frame.live THEN "fast" ELSE "snapshot"

\* Lines 121-129: the frame is gone; save_reduce writes the call
\* _restore_spent_generator(name, qualname) and memoizes the instance.
SG_spent ==
    /\ At(121)
    /\ SavePath(generator) = "fast"
    /\ ReturnFrom("save_reduce(_restore_spent_generator)",
                  <<StreamOp("GLOBAL", "_restore_spent_generator"),
                    StreamOp("ARGS", <<generator.name, generator.qualname>>),
                    StreamOp("REDUCE", "None"),
                    StreamOp("PUT", "G")>>)
    /\ pmemo' = pmemo \cup {"G"}
    /\ UNCHANGED <<ownervars, loadvars>>
    /\ UNCHANGED nonlifevars

\* Lines 131-145: the frame is live; build the definition-carrier.
SG_carrier ==
    /\ At(121)
    /\ SavePath(generator) = "snapshot"
    /\ pstack' = [pstack EXCEPT ![Len(pstack)].pc = 151]
    /\ UNCHANGED <<pstatus, stream, pmemo, calls, ownervars, loadvars>>
    /\ UNCHANGED nonlifevars

SG_save_fill ==
    /\ At(151)
    /\ Advance(154, "save(_fill_generator)",
               <<StreamOp("GLOBAL", "_fill_generator")>>)
    /\ UNCHANGED <<pstatus, pmemo, calls, ownervars, loadvars>>
    /\ UNCHANGED nonlifevars

SG_mark ==
    /\ At(154)
    /\ Advance(156, "write(MARK)", <<StreamOp("MARK", "None")>>)
    /\ UNCHANGED <<pstatus, pmemo, calls, ownervars, loadvars>>
    /\ UNCHANGED nonlifevars

SG_save_skeleton ==
    /\ At(156)
    /\ Advance(157, "save(_create_skeleton_generator)",
               <<StreamOp("GLOBAL", "_create_skeleton_generator")>>)
    /\ UNCHANGED <<pstatus, pmemo, calls, ownervars, loadvars>>
    /\ UNCHANGED nonlifevars

\* Line 157: gen_func is pickled by value, with the globals its code names;
\* when one of them is bound to the generator itself, save() reaches the
\* instance here.
SG_save_carrier ==
    /\ At(157)
    /\ IF selfglobal /\ "G" \notin pmemo
         THEN Recurse
         ELSE /\ Advance(158, "save((gen_func,))",
                         <<StreamOp("FUNC1", GenFunc(generator.code, generator.name, generator.qualname))>>)
              /\ UNCHANGED <<pstatus, pmemo, calls>>
    /\ UNCHANGED <<ownervars, loadvars>>
    /\ UNCHANGED nonlifevars

\* A variant that memoizes the instance before the REDUCE that builds the
\* skeleton, binding the memo entry to the argument tuple.
SG_reduce_skeleton_after_memoize ==
    /\ At(158)
    /\ pstack' = [pstack EXCEPT ![Len(pstack)] =
                     [pc |-> 162,
                      log |-> @.log \o <<"memoize(gen)", "write(REDUCE)">>]]
    /\ stream' = stream \o <<StreamOp("PUT", "G"), StreamOp("REDUCE", "None")>>
    /\ pmemo' = pmemo \cup {"G"}
    /\ UNCHANGED <<pstatus, calls, ownervars, loadvars>>
    /\ UNCHANGED nonlifevars

SG_reduce_skeleton ==
    /\ At(158)
    /\ Advance(159, "write(REDUCE)", <<StreamOp("REDUCE", "None")>>)
    /\ UNCHANGED <<pstatus, pmemo, calls, ownervars, loadvars>>
    /\ UNCHANGED nonlifevars

SG_memoize ==
    /\ At(159)
    /\ Advance(162, "memoize(gen)", <<StreamOp("PUT", "G")>>)
    /\ pmemo' = pmemo \cup {"G"}
    /\ UNCHANGED <<pstatus, calls, ownervars, loadvars>>
    /\ UNCHANGED nonlifevars

SG_save_lasti ==
    /\ At(162)
    /\ Advance(163, "save(frame.f_lasti)", <<StreamOp("INT", generator.frame.f_lasti)>>)
    /\ UNCHANGED <<pstatus, pmemo, calls, ownervars, loadvars>>
    /\ UNCHANGED nonlifevars

\* Line 163: the values of f_locals are saved one by one; the instance
\* itself among them is a memo fetch when it is memoized.
SG_save_locals ==
    /\ At(163)
    /\ LET f_locals == f_locals_of(generator.code, generator.frame)
       IN  IF (\E e \in f_locals : e[2] = "G") /\ "G" \notin pmemo
             THEN Recurse
             ELSE /\ Advance(164, "save(f_locals)",
                             <<StreamOp("DICT", {<<e[1], Pickled(e[2])>> : e \in f_locals})>>)
                  /\ UNCHANGED <<pstatus, pmemo, calls>>
    /\ UNCHANGED <<ownervars, loadvars>>
    /\ UNCHANGED nonlifevars

SG_save_frame_data ==
    /\ At(164)
    /\ Advance(167, "save(private_frame_data(frame))",
               <<StreamOp("DATA", private_frame_data(generator.frame))>>)
    /\ UNCHANGED <<pstatus, pmemo, calls, ownervars, loadvars>>
    /\ UNCHANGED nonlifevars

SG_tuple ==
    /\ At(167)
    /\ Advance(168, "write(TUPLE)", <<StreamOp("TUPLE", "None")>>)
    /\ UNCHANGED <<pstatus, pmemo, calls, ownervars, loadvars>>
    /\ UNCHANGED nonlifevars

SG_reduce ==
    /\ At(168)
    /\ ReturnFrom("write(REDUCE)", <<StreamOp("REDUCE", "None")>>)
    /\ UNCHANGED <<pmemo, ownervars, loadvars>>
    /\ UNCHANGED nonlifevars

-----------------------------------------------------------------------------
(* Replay: pickle.loads runs the stream on its stack machine *)

Ref(i) == IF i = 1 THEN "S1" ELSE IF i = 2 THEN "S2" ELSE "S3"

RefIndex(r) == IF r = "S1" THEN 1 ELSE IF r = "S2" THEN 2 ELSE 3

Item(kind, v) == [kind |-> kind, v |-> v]

Cur == stream[upos]

Reading(op) == ustatus = "loading" /\ upos <= Len(stream) /\ Cur.op = op

Push(item) == /\ ustack' = Append(ustack, item)
              /\ upos' = upos + 1

UTop == ustack[Len(ustack)]

\* The callable and the argument tuple a REDUCE finds on top of the stack.
Callee == ustack[Len(ustack) - 1].v

CallArgs == UTop.v

\* REDUCE replaces the callable and its arguments by the call's result.
PushResult(item) ==
    /\ ustack' = Append(SubSeq(ustack, 1, Len(ustack) - 2), item)
    /\ upos' = upos + 1

Fail(exc) ==
    /\ ustatus' = "error"
    /\ result' = exc
    /\ UNCHANGED <<upos, ustack>>

Load ==
    /\ pstatus = "done"
    /\ ustatus = "idle"
    /\ ustatus' = "loading"
    /\ UNCHANGED <<upos, ustack, umemo, heap, result, outcomes, ownervars, picklevars>>
    /\ UNCHANGED nonlifevars

U_global ==
    /\ Reading("GLOBAL")
    /\ Push(Item("func", Cur.arg))
    /\ UNCHANGED <<ustatus, umemo, heap, result, outcomes, ownervars, picklevars>>
    /\ UNCHANGED nonlifevars

U_mark ==
    /\ Reading("MARK")
    /\ Push(Item("mark", "None"))
    /\ UNCHANGED <<ustatus, umemo, heap, result, outcomes, ownervars, picklevars>>
    /\ UNCHANGED nonlifevars

\* The definition-carrier, rebuilt by cloudpickle, in a 1-tuple.
U_func1 ==
    /\ Reading("FUNC1")
    /\ Push(Item("args", <<Cur.arg>>))
    /\ UNCHANGED <<ustatus, umemo, heap, result, outcomes, ownervars, picklevars>>
    /\ UNCHANGED nonlifevars

U_args ==
    /\ Reading("ARGS")
    /\ Push(Item("args", Cur.arg))
    /\ UNCHANGED <<ustatus, umemo, heap, result, outcomes, ownervars, picklevars>>
    /\ UNCHANGED nonlifevars

\* memoize: the memo entry is bound to the object on top of the stack.
U_put ==
    /\ Reading("PUT")
    /\ umemo' = UTop.v
    /\ upos' = upos + 1
    /\ UNCHANGED <<ustatus, ustack, heap, result, outcomes, ownervars, picklevars>>
    /\ UNCHANGED nonlifevars

U_int ==
    /\ Reading("INT")
    /\ Push(Item("int", Cur.arg))
    /\ UNCHANGED <<ustatus, umemo, heap, result, outcomes, ownervars, picklevars>>
    /\ UNCHANGED nonlifevars

\* The dict of locals; a memo fetch among its values gives the object the
\* memo entry is bound to.
U_dict ==
    /\ Reading("DICT")
    /\ IF (\E e \in Cur.arg : e[2] = "@G") /\ umemo = "None"
         THEN Fail("KeyError") /\ UNCHANGED <<umemo, heap>>
         ELSE /\ Push(Item("dict", {<<e[1], IF e[2] = "@G" THEN umemo ELSE e[2]>> :
                                      e \in Cur.arg}))
              /\ UNCHANGED <<ustatus, umemo, heap, result>>
    /\ UNCHANGED <<outcomes, ownervars, picklevars>>
    /\ UNCHANGED nonlifevars

U_data ==
    /\ Reading("DATA")
    /\ Push(Item("data", Cur.arg))
    /\ UNCHANGED <<ustatus, umemo, heap, result, outcomes, ownervars, picklevars>>
    /\ UNCHANGED nonlifevars

\* TUPLE gathers what lies above the topmost mark.
U_tuple ==
    /\ Reading("TUPLE")
    /\ LET m == CHOOSE i \in 1..Len(ustack) :
                  /\ ustack[i].kind = "mark"
                  /\ \A j \in (i + 1)..Len(ustack) : ustack[j].kind # "mark"
           items == [j \in 1..(Len(ustack) - m) |-> ustack[m + j].v]
       IN  ustack' = Append(SubSeq(ustack, 1, m - 1), Item("args", items))
    /\ upos' = upos + 1
    /\ UNCHANGED <<ustatus, umemo, heap, result, outcomes, ownervars, picklevars>>
    /\ UNCHANGED nonlifevars

U_reduce_skeleton ==
    /\ Reading("REDUCE")
    /\ Callee = "_create_skeleton_generator"
    /\ LET r == _create_skeleton_generator(CallArgs[1])
       IN  IF r.exc # "none"
             THEN Fail(r.exc) /\ UNCHANGED heap
             ELSE /\ heap' = Append(heap, r.gen)
                  /\ PushResult(Item("gen", Ref(Len(heap) + 1)))
                  /\ UNCHANGED <<ustatus, result>>
    /\ UNCHANGED <<umemo, outcomes, ownervars, picklevars>>
    /\ UNCHANGED nonlifevars

\* _fill_generator changes the skeleton in place and returns it.
U_reduce_fill ==
    /\ Reading("REDUCE")
    /\ Callee = "_fill_generator"
    /\ LET ref == CallArgs[1]
           r == _fill_generator(heap[RefIndex(ref)], CallArgs[2], CallArgs[3],
                                CallArgs[4])
       IN  IF r.exc # "none"
             THEN Fail(r.exc) /\ UNCHANGED heap
             ELSE /\ heap' = [heap EXCEPT ![RefIndex(ref)] = r.gen]
                  /\ PushResult(Item("gen", ref))
                  /\ UNCHANGED <<ustatus, result>>
    /\ UNCHANGED <<umemo, outcomes, ownervars, picklevars>>
    /\ UNCHANGED nonlifevars

U_reduce_spent ==
    /\ Reading("REDUCE")
    /\ Callee = "_restore_spent_generator"
    /\ heap' = Append(heap, _restore_spent_generator(CallArgs[1], CallArgs[2]))
    /\ PushResult(Item("gen", Ref(Len(heap) + 1)))
    /\ UNCHANGED <<ustatus, result, umemo, outcomes, ownervars, picklevars>>
    /\ UNCHANGED nonlifevars

\* The end of the stream: loads returns the object on top of the stack.
U_stop ==
    /\ ustatus = "loading"
    /\ upos > Len(stream)
    /\ ustatus' = "done"
    /\ result' = UTop.v
    /\ UNCHANGED <<upos, ustack, umemo, heap, outcomes, ownervars, picklevars>>
    /\ UNCHANGED nonlifevars

\* The new owner resumes a generator that _restore_spent_generator built.
ResumeRestored ==
    /\ ustatus = "done"
    /\ SavePath(generator) = "fast"
    /\ Len(outcomes) < MaxResumes
    /\ LET r == PyNextSingle(heap[RefIndex(result)])
       IN  /\ heap' = [heap EXCEPT ![RefIndex(result)] = r.gen]
           /\ outcomes' = Append(outcomes, r.outcome)
    /\ UNCHANGED <<ustatus, upos, ustack, umemo, result, ownervars, picklevars>>
    /\ UNCHANGED nonlifevars

InitPickle ==
    /\ pstatus = "idle"
    /\ pstack = <<>>
    /\ pmemo = {}
    /\ stream = <<>>
    /\ calls = <<>>

InitLoad ==
    /\ ustatus = "idle"
    /\ upos = 1
    /\ ustack = <<>>
    /\ umemo = "None"
    /\ heap = <<>>
    /\ result = "None"
    /\ outcomes = <<>>

IdleOwner ==
    /\ generator = NoGen
    /\ selfglobal = FALSE

NextLife ==
    \/ ResumeYield \/ ResumeFinish
    \/ Dump \/ SG_spent \/ SG_carrier \/ SG_save_fill \/ SG_mark
    \/ SG_save_skeleton \/ SG_save_carrier \/ SG_reduce_skeleton \/ SG_memoize
    \/ SG_save_lasti \/ SG_save_locals \/ SG_save_frame_data \/ SG_tuple
    \/ SG_reduce
    \/ Load \/ U_global \/ U_mark \/ U_func1 \/ U_args \/ U_put \/ U_int
    \/ U_dict \/ U_data \/ U_tuple \/ U_reduce_skeleton \/ U_reduce_fill
    \/ U_reduce_spent \/ U_stop \/ ResumeRestored

IdleRegistry ==
    /\ dispatch = {<<FunctionType, "save_function">>,
                   <<GeneratorType, _save_generator>>}
    /\ history = <<>>
    /\ raised = "none"

IdleFill ==
    /\ fill_in = [gen |-> NoGen, lasti |-> NOT_STARTED, f_locals |-> {},
                  frame_data |-> FreshData]
    /\ fill_out = Pending

IdleSkeleton ==
    /\ skel_in = GenFunc(NoCode, "None", "None")
    /\ skel_out = SkelPending

IdleLife == IdleOwner /\ InitPickle /\ InitLoad

InitRegistryOnly == InitRegistry /\ IdleFill /\ IdleSkeleton /\ IdleLife

SpecRegistry == InitRegistryOnly /\ [][NextRegistry]_vars

InitFillOnly == InitFill /\ IdleRegistry /\ IdleSkeleton /\ IdleLife

SpecFill == InitFillOnly /\ [][NextFill]_vars

InitSkeletonOnly == InitSkeleton /\ IdleRegistry /\ IdleFill /\ IdleLife

SpecSkeleton == InitSkeletonOnly /\ [][NextSkeleton]_vars

\* The life of one generator: after register(), its owner runs it, dump()
\* pickles it, loads() replays the stream, the new owner resumes the result.
Init ==
    /\ InitOwner /\ InitPickle /\ InitLoad
    /\ IdleRegistry /\ IdleFill /\ IdleSkeleton

Next == NextLife

Spec == Init /\ [][Next]_vars

LastOp == history[Len(history)]

IsUnregisterStep ==
    /\ Len(history') = Len(history) + 1
    /\ history'[Len(history')].op = "unregister"

PartyOps == {"other_install", "other_remove"}

NoOtherParty == \A i \in 1..Len(history) : history[i].op \notin PartyOps

Registered == \E i \in 1..Len(history) : history[i].op = "register"

-----------------------------------------------------------------------------
(* C5: unregister() deletes the GeneratorType entry only when that entry is *)
(* _save_generator; when the entry is absent or is another party's handler, *)
(* it leaves the whole table as it was; and it never raises.                *)
C5_UnregisterOnlyOwn ==
    [][IsUnregisterStep =>
          /\ raised' = "none"
          /\ IF HandlerFor(GeneratorType) = _save_generator
                THEN dispatch' = dispatch \ EntriesFor(GeneratorType)
                ELSE dispatch' = dispatch]_vars

\* unregister() has just run while another party's handler held the entry.
C5_Witness ==
    /\ Len(history) >= 2
    /\ LastOp.op = "unregister"
    /\ history[Len(history) - 1] = Op("other_install", GeneratorType, "other_save_generator")
    /\ HandlerFor(GeneratorType) = "other_save_generator"

(* C6: when the last call is register(), the table holds exactly one entry  *)
(* for GeneratorType and it is _save_generator; when the last call is       *)
(* unregister(), a register() came before it and no other party touched the*)
(* table, GeneratorType has no entry and pickling uses the default.         *)
C6_RegisterUnregister ==
    /\ (Len(history) > 0 /\ LastOp.op = "register") =>
          /\ EntriesFor(GeneratorType) = {<<GeneratorType, _save_generator>>}
          /\ raised = "none"
    /\ (Len(history) > 0 /\ LastOp.op = "unregister" /\ Registered /\ NoOtherParty) =>
          /\ EntriesFor(GeneratorType) = {}
          /\ HandlerFor(GeneratorType) = "default"
          /\ raised = "none"

\* register() twice, then unregister(): the entry is gone.
C6_Witness ==
    /\ Len(history) >= 3
    /\ LastOp.op = "unregister"
    /\ history[Len(history) - 1].op = "register"
    /\ history[Len(history) - 2].op = "register"
    /\ NoOtherParty
    /\ EntriesFor(GeneratorType) = {}

(* C2: the list _fill_generator passes to restore_frame has one entry per   *)
(* name of co_varnames, in order (the captured value, or unset_value when   *)
(* the name is not in the mapping), then one cell per name of co_cellvars   *)
(* and then of co_freevars (empty when the name is not in the mapping, else *)
(* holding the captured value); None stays None and absent stays unset.     *)
C2_FillOrder ==
    fill_out.done =>
      LET code == fill_in.gen.code
          m == fill_in.f_locals
          L == fill_out.locals_
          nv == Len(code.co_varnames)
          nc == Len(code.co_cellvars)
          nf == Len(code.co_freevars)
          captured(n) == (CHOOSE e \in m : e[1] = n)[2]
          cell(n) == IF n \in DictKeys(m) THEN CellObj(captured(n)) ELSE CellObj(NULL)
      IN  /\ Len(L) = nv + nc + nf
          /\ \A i \in 1..nv :
                L[i] = IF code.co_varnames[i] \in DictKeys(m)
                         THEN Bare(captured(code.co_varnames[i]))
                         ELSE Bare(unset_value)
          /\ \A j \in 1..nc : L[nv + j] = cell(code.co_cellvars[j])
          /\ \A j \in 1..nf : L[nv + nc + j] = cell(code.co_freevars[j])
          /\ \A i \in 1..(nv + nc + nf) :
                /\ (L[i].v \in {unset_value, NULL}) <=> (SlotNames(code)[i] \notin DictKeys(m))
                /\ (L[i].v = "None") <=> (<<SlotNames(code)[i], "None">> \in m)

\* A skeleton with a local, a cell variable and a free variable was filled
\* from a mapping that holds None for the local, nothing for the cell
\* variable and a value for the free variable.
C2_Witness ==
    /\ fill_out.done
    /\ Len(fill_in.gen.code.co_varnames) >= 1
    /\ Len(fill_in.gen.code.co_cellvars) >= 1
    /\ Len(fill_in.gen.code.co_freevars) >= 1
    /\ <<<<"x", 1>>, "None">> \in fill_in.f_locals
    /\ <<"c", 1>> \notin DictKeys(fill_in.f_locals)
    /\ <<<<"y", 1>>, "v1">> \in fill_in.f_locals

(* C8: when the mapping names a slot the skeleton's code does not declare,  *)
(* _fill_generator fails with an error and leaves the skeleton as it was.   *)
C8_MismatchIsFatal ==
    (fill_out.done
       /\ ~(DictKeys(fill_in.f_locals) \subseteq SeqRange(SlotNames(fill_in.gen.code))))
      => (fill_out.exc # "none" /\ fill_out.gen = fill_in.gen)

(* C10: for a carrier with a positional and k keyword-only parameters,      *)
(* _create_skeleton_generator passes a positional None and one keyword None *)
(* for each of the names co_varnames[a .. a+k-1]; the call succeeds and     *)
(* gives a generator that has not started, with the carrier's qualname.     *)
C10_SkeletonArity ==
    skel_out.done =>
      LET code == skel_in.code
          a == code.co_argcount
          k == code.co_kwonlyargcount
      IN  /\ skel_out.npos = a
          /\ skel_out.kwnames = {code.co_varnames[i] : i \in (a + 1)..(a + k)}
          /\ skel_out.exc = "none"
          /\ skel_out.gen.frame.live
          /\ skel_out.gen.frame.f_lasti = NOT_STARTED
          /\ skel_out.gen.qualname = skel_in.qualname

-----------------------------------------------------------------------------
(* Claims about pickling and replay *)

Restored == heap[RefIndex(result)]

\* The execution state of r is that of the original o, with the original
\* instance in a slot replaced by the replayed instance ref.
SameState(o, r, ref) ==
    /\ r.name = o.name
    /\ r.qualname = o.qualname
    /\ r.code = o.code
    /\ r.frame.live
    /\ r.frame.f_lasti = o.frame.f_lasti
    /\ r.frame.data = o.frame.data
    /\ Len(r.frame.fast) = Len(o.frame.fast)
    /\ \A i \in 1..Len(o.frame.fast) :
          r.frame.fast[i] = [o.frame.fast[i] EXCEPT !.v = IF @ = "G" THEN ref ELSE @]

SelfInLocals == \E i \in 1..Len(generator.frame.fast) : generator.frame.fast[i].v = "G"

IsPrefix(s, t) == Len(s) <= Len(t) /\ \A i \in 1..Len(s) : s[i] = t[i]

OpsOf(s) == [i \in 1..Len(s) |-> s[i].op]

(* C1: for every generator with a live frame, replaying the stream that     *)
(* _save_generator wrote gives a generator whose instruction pointer,       *)
(* slots, cells and private frame data equal those of the original.         *)
C1_RoundTrip ==
    (pstatus = "done" /\ SavePath(generator) = "snapshot"
       /\ ustatus \in {"done", "error"})
      => (ustatus = "done" /\ SameState(generator, Restored, result))

(* C3: for a generator whose frame is gone, _save_generator writes only the *)
(* call _restore_spent_generator(name, qualname); the object the replayed   *)
(* call returns has the original's name and qualified name, and every       *)
(* resume of it, from the first on, raises StopIteration.                   *)
C3_SpentFastPath ==
    SavePath(generator) = "fast" =>
      /\ pstatus = "done" =>
            /\ calls = <<"save_reduce(_restore_spent_generator)">>
            /\ OpsOf(stream) = <<"GLOBAL", "ARGS", "REDUCE", "PUT">>
            /\ stream[1].arg = "_restore_spent_generator"
            /\ stream[2].arg = <<generator.name, generator.qualname>>
      /\ ustatus # "error"
      /\ ustatus = "done" =>
            /\ Restored.name = generator.name
            /\ Restored.qualname = generator.qualname
            /\ \A i \in 1..Len(outcomes) : outcomes[i] = "StopIteration"

\* A spent generator was pickled and replayed, and the result resumed twice.
C3_Witness ==
    /\ SavePath(generator) = "fast"
    /\ ustatus = "done"
    /\ generator.qualname = "outer.<locals>.gen"
    /\ Len(outcomes) >= 2

(* C4: the generator _restore_spent_generator returns has no frame, so      *)
(* pickling it again takes the fast path again.                             *)
C4_SpentFrameReleased ==
    (SavePath(generator) = "fast" /\ ustatus = "done" /\ outcomes = <<>>)
      => (~Restored.frame.live /\ SavePath(Restored) = "fast")

(* C7: when the instance is reachable again while it is being pickled,      *)
(* _save_generator is never entered for it a second time, and replay binds  *)
(* every such reference to one object, the restored generator, which is the *)
(* skeleton bound to the memo entry.                                        *)
C7_SelfReference ==
    (SavePath(generator) = "snapshot" /\ (selfglobal \/ SelfInLocals)) =>
      /\ Len(pstack) <= 1
      /\ pstatus # "error"
      /\ ustatus # "error"
      /\ ustatus = "done" =>
            /\ result = umemo
            /\ Len(heap) = 1
            /\ \A i \in 1..Len(generator.frame.fast) :
                  generator.frame.fast[i].v = "G" => Restored.frame.fast[i].v = result

SnapshotOrder ==
    <<"save(_fill_generator)", "write(MARK)", "save(_create_skeleton_generator)",
      "save((gen_func,))", "write(REDUCE)", "memoize(gen)", "save(frame.f_lasti)",
      "save(f_locals)", "save(private_frame_data(frame))", "write(TUPLE)",
      "write(REDUCE)">>

(* C9: on the snapshot path _save_generator makes its calls in the order    *)
(* save(_fill_generator), MARK, save(_create_skeleton_generator),           *)
(* save((gen_func,)), REDUCE, memoize, save(f_lasti), save(f_locals),       *)
(* save(private frame data), TUPLE, REDUCE: one memoize, after the first    *)
(* REDUCE and before the three restore arguments; REDUCE comes last.        *)
C9_EmitOrder ==
    /\ \A i \in 1..Len(pstack) : IsPrefix(pstack[i].log, SnapshotOrder)
    /\ (pstatus = "done" /\ SavePath(generator) = "snapshot") =>
          /\ calls = SnapshotOrder
          /\ OpsOf(stream) = <<"GLOBAL", "MARK", "GLOBAL", "FUNC1", "REDUCE", "PUT",
                               "INT", "DICT", "DATA", "TUPLE", "REDUCE">>
          /\ stream[1].arg = "_fill_generator"
          /\ stream[3].arg = "_create_skeleton_generator"
          /\ stream[7].arg = generator.frame.f_lasti

\* A paused generator that refers to itself from a local was pickled.
C9_Witness ==
    /\ pstatus = "done"
    /\ SavePath(generator) = "snapshot"
    /\ generator.frame.f_lasti > NOT_STARTED
    /\ SelfInLocals

\* The round trip on the code objects for which the slice that gives
\* kwonly_names is right: no positional or no keyword-only parameters.
RoundTripWithoutKwonlySlip ==
    (pstatus = "done" /\ SavePath(generator) = "snapshot"
       /\ ustatus \in {"done", "error"}
       /\ (generator.code.co_argcount = 0 \/ generator.code.co_kwonlyargcount = 0))
      => (ustatus = "done" /\ SameState(generator, Restored, result))

=============================================================================
